---- MODULE Spec2Model ----
(***************************************************************************)
(* A model of niworkflows/anat/mni.py: the RobustMNINormalization          *)
(* interface, which tries an ordered list of ANTs settings files until one *)
(* registration succeeds, archives the logs of every attempt and validates *)
(* the result against the overlap of the brain masks.                      *)
(*                                                                         *)
(* File names are sequences of character codes, so that startswith,        *)
(* endswith, sorted and '%03d' are computed as Python computes them.       *)
(* An optional trait is a set: {} is Undefined, {v} is the value v.        *)
(***************************************************************************)
EXTENDS Integers, Sequences, FiniteSets, TLC

\* ---------------------------------------------------------------- bounds
\* longest explicit settings list a caller passes
MaxSettings == 3
\* number of runs made on one interface instance
MaxRuns == 2
\* number of voxels of the mask volumes given to the validator
NVox == 2

\* ------------------------------------------------------- optional traits
Undefined == {}

isdefined(x) == x # Undefined

Val(x) == CHOOSE v \in x : TRUE

\* ------------------------------------------------------ character strings
\* "-mni_registration_"
MniRegistration == <<45, 109, 110, 105, 95, 114, 101, 103, 105, 115, 116, 114, 97, 116, 105, 111, 110, 95>>

\* "_"
Underscore == <<95>>

\* ".json"
DotJson == <<46, 106, 115, 111, 110>>

\* the values of the trait `moving`: "T1", "EPI"
MovingT1 == <<84, 49>>

MovingEPI == <<69, 80, 73>>

\* the values of the trait `flavor`: "precise", "testing", "fast"
FlavorPrecise == <<112, 114, 101, 99, 105, 115, 101>>

FlavorTesting == <<116, 101, 115, 116, 105, 110, 103>>

FlavorFast == <<102, 97, 115, 116>>

\* str.lower() on ASCII: 'A'..'Z' (65..90) map to 'a'..'z'
Lower(s) == [i \in 1..Len(s) |-> IF s[i] >= 65 /\ s[i] <= 90 THEN s[i] + 32 ELSE s[i]]

\* str.startswith
StartsWith(s, p) == Len(p) <= Len(s) /\ SubSeq(s, 1, Len(p)) = p

\* str.endswith
EndsWith(s, p) == Len(p) <= Len(s) /\ SubSeq(s, Len(s) - Len(p) + 1, Len(s)) = p

\* Python's order on str: code point by code point, a proper prefix first
RECURSIVE StrLess(_, _)
StrLess(a, b) ==
    IF b = <<>> THEN FALSE
    ELSE IF a = <<>> THEN TRUE
    ELSE IF a[1] # b[1] THEN a[1] < b[1]
    ELSE StrLess(Tail(a), Tail(b))

\* the listing as resource_listdir gave it
SortedAsListed(l) == l

\* sorted(): the ascending sequence of the elements of a listing
RECURSIVE Sorted(_)
Sorted(l) ==
    IF l = <<>> THEN <<>>
    ELSE LET m == CHOOSE i \in 1..Len(l) :
                      \A j \in 1..Len(l) : ~StrLess(l[j], l[i]) /\ (l[j] = l[i] => i <= j)
             rest == [k \in 1..(Len(l) - 1) |-> IF k < m THEN l[k] ELSE l[k + 1]]
         IN  <<l[m]>> \o Sorted(rest)

\* the decimal digits of a natural number, most significant first
RECURSIVE Digits(_)
Digits(n) == IF n < 10 THEN <<48 + n>> ELSE Digits(n \div 10) \o <<48 + (n % 10)>>

RECURSIVE ZeroPad(_, _)
ZeroPad(s, w) == IF Len(s) >= w THEN s ELSE ZeroPad(<<48>> \o s, w)

\* '.%03d' % n
Fmt03(n) == <<46>> \o ZeroPad(Digits(n), 3)

\* ------------------------------------------------------------ the catalog
\* pkgr.resource_listdir('niworkflows', 'data'): the settings files shipped
\* with the package, and files that resemble them
CatalogName(moving, flavor, tag) == moving \o MniRegistration \o flavor \o Underscore \o tag \o DotJson

Catalog ==
    { CatalogName(Lower(MovingT1), FlavorFast, <<48, 48, 48>>),
      CatalogName(Lower(MovingT1), FlavorFast, <<48, 48, 49>>),
      CatalogName(Lower(MovingT1), FlavorTesting, <<48, 48, 48>>),
      \* "t1-mni_registration_fast_000.json.txt"
      CatalogName(Lower(MovingT1), FlavorFast, <<48, 48, 48>>) \o <<46, 116, 120, 116>> }

\* the orders in which listdir may enumerate the catalog
Listings == { l \in [1..Cardinality(Catalog) -> Catalog] : \A i, j \in 1..Cardinality(Catalog) : l[i] = l[j] => i = j }

\* pkgr.resource_filename('niworkflows.data', f): "d/" + f
ResourceFilename(f) == <<100, 47>> \o f

\* [i for i in listing if cond(i)]
RECURSIVE Filter(_, _)
Filter(l, p) ==
    IF l = <<>> THEN <<>>
    ELSE (IF StartsWith(l[1], p) /\ EndsWith(l[1], DotJson) THEN <<l[1]>> ELSE <<>>) \o Filter(Tail(l), p)

FileStart(in) ==
    IF isdefined(in.testing) /\ Val(in.testing)
    THEN Lower(in.moving) \o MniRegistration \o FlavorTesting \o Underscore
    ELSE Lower(in.moving) \o MniRegistration \o in.flavor \o Underscore

\* _get_settings without lines 76-78
GetSettingsNoOverride(in, listing) ==
    LET filenames == Filter(listing, FileStart(in))
        sorted == Sorted(filenames)
    IN  [files |-> [i \in 1..Len(sorted) |-> ResourceFilename(sorted[i])], listed |-> TRUE]

\* _get_settings: the list returned and whether the catalog was listed
GetSettings(in, listing) ==
    IF isdefined(in.settings)
    THEN [files |-> Val(in.settings), listed |-> FALSE]
    ELSE LET filenames == Filter(listing, FileStart(in))
             sorted == Sorted(filenames)
         IN  [files |-> [i \in 1..Len(sorted) |-> ResourceFilename(sorted[i])], listed |-> TRUE]

\* ------------------------------------------------------------- the inputs
\* caller-supplied settings files: "u", "v"
UserFiles == { <<117>>, <<118>> }

RECURSIVE SeqsUpTo(_, _)
SeqsUpTo(S, n) ==
    IF n = 0 THEN { <<>> }
    ELSE SeqsUpTo(S, n - 1) \cup { Append(s, x) : s \in { t \in SeqsUpTo(S, n - 1) : Len(t) = n - 1 }, x \in S }

Opt(S) == { Undefined } \cup { {v} : v \in S }

\* RobustMNINormalizationInputSpec: the traits _get_settings reads
SettingsTraits ==
    [ settings : Opt(SeqsUpTo(UserFiles, MaxSettings)),
      moving : { MovingT1, MovingEPI },
      flavor : { FlavorPrecise, FlavorTesting, FlavorFast },
      testing : Opt(BOOLEAN) ]

\* and the other traits
OtherTraits ==
    [ moving_image : { << <<"mov1">> >>, << <<"mov1">>, <<"mov2">> >> },
      reference_image : Opt({ << <<"ref">> >> }),
      moving_mask : Opt({ <<"mmask">> }),
      reference_mask : Opt({ <<"rmask">> }),
      num_threads : { 2 },
      orientation : { "RAS", "LAS" },
      reference : { "T1" },
      template : { "mni_icbm152_linear" },
      template_resolution : { 1 },
      explicit_masking : BOOLEAN,
      initial_moving_transform : Opt({ <<"user_xfm">> }) ]

DefaultTraits ==
    [ moving_image |-> << <<"mov1">>, <<"mov2">> >>, reference_image |-> Undefined,
      moving_mask |-> Undefined, reference_mask |-> Undefined, num_threads |-> 2,
      orientation |-> "RAS", reference |-> "T1", template |-> "mni_icbm152_linear",
      template_resolution |-> 1, explicit_masking |-> TRUE, initial_moving_transform |-> Undefined ]

\* "u", "v", "u", ... : an explicit list of n files
UserList(n) == [ i \in 1..n |-> IF i % 2 = 1 THEN <<117>> ELSE <<118>> ]

\* the settings traits of the runs of the controller: an explicit list of
\* each length with the other three at their defaults, and three selections
\* from the catalog (two files, one file through the testing flag, none)
RunSettingsTraits ==
    { t \in SettingsTraits :
        \/ /\ isdefined(t.settings) /\ Val(t.settings) = UserList(Len(Val(t.settings)))
           /\ t.moving = MovingT1 /\ t.flavor = FlavorPrecise /\ t.testing = Undefined
        \/ ~isdefined(t.settings) /\ t.moving = MovingT1 /\ t.flavor = FlavorFast /\ t.testing = Undefined
        \/ ~isdefined(t.settings) /\ t.moving = MovingT1 /\ t.flavor = FlavorPrecise /\ t.testing = {TRUE}
        \/ ~isdefined(t.settings) /\ t.moving = MovingEPI /\ t.flavor = FlavorPrecise /\ t.testing = Undefined }

RunInputs == { o @@ t : o \in OtherTraits, t \in RunSettingsTraits }

\* ------------------------------------------------------------ _config_ants
\* bool() of a trait value; the Undefined object defines no truth value of
\* its own and is true like any other object
Truthy(x) == IF isdefined(x) THEN Val(x) ELSE TRUE

\* _get_resolution
GetResolution(in) == IF Truthy(in.testing) THEN 2 ELSE in.template_resolution

\* op.join(mni_template, '%dmm_%s.nii.gz' % (resolution, what))
TemplateFile(in, what) == <<in.template, IF GetResolution(in) = 1 THEN "1mm" ELSE "2mm", what>>

\* mask(in_file, mask_file, new_name) returns os.path.abspath(new_name)
MaskedPath(new_name) == <<"cwd", new_name>>

\* Registration(...), lines 139-145
NewRegistration(in) ==
    [ moving_image |-> in.moving_image,
      num_threads |-> in.num_threads,
      terminal_output |-> "file",
      write_composite_transform |-> TRUE,
      initial_moving_transform |-> in.initial_moving_transform,
      moving_image_mask |-> Undefined,
      fixed_image |-> Undefined,
      fixed_image_mask |-> Undefined,
      from_file |-> Undefined ]

\* lines 147-154: the moving side
ConfigMoving(in, reg) ==
    IF isdefined(in.moving_mask)
    THEN IF in.explicit_masking
         THEN [ norm |-> [reg EXCEPT !.moving_image = <<MaskedPath("moving_masked.nii.gz")>>],
                masked |-> { [name |-> "moving_masked.nii.gz", in_file |-> in.moving_image[1],
                              mask_file |-> Val(in.moving_mask)] } ]
         ELSE [ norm |-> [reg EXCEPT !.moving_image_mask = in.moving_mask], masked |-> {} ]
    ELSE [ norm |-> reg, masked |-> {} ]

\* line 167: the orientation that no template serves
UnsupportedNever(in) == FALSE

Unsupported(in) == in.orientation = "LAS"

\* lines 156-184: the fixed side; error is "" when configuration completes
ConfigFixed(in, c) ==
    IF isdefined(in.reference_image)
    THEN LET n1 == [c.norm EXCEPT !.fixed_image = in.reference_image]
         IN  IF isdefined(in.reference_mask)
             THEN IF in.explicit_masking
                  \* line 162 reads self.inputs.mreference_mask, which is no trait
                  THEN [ norm |-> n1, masked |-> c.masked, error |-> "AttributeError" ]
                  ELSE [ norm |-> [n1 EXCEPT !.fixed_image_mask = in.reference_mask],
                         masked |-> c.masked, error |-> "" ]
             ELSE [ norm |-> n1, masked |-> c.masked, error |-> "" ]
    ELSE IF Unsupported(in)
         THEN [ norm |-> c.norm, masked |-> c.masked, error |-> "NotImplementedError" ]
         ELSE IF in.explicit_masking
              THEN [ norm |-> [c.norm EXCEPT !.fixed_image = {<<MaskedPath("fixed_masked.nii.gz")>>}],
                     masked |-> c.masked \cup
                         { [name |-> "fixed_masked.nii.gz", in_file |-> TemplateFile(in, in.reference),
                            mask_file |-> TemplateFile(in, "brainmask")] },
                     error |-> "" ]
              ELSE [ norm |-> [c.norm EXCEPT !.fixed_image = {<<TemplateFile(in, in.reference)>>},
                                             !.fixed_image_mask = {TemplateFile(in, "brainmask")}],
                     masked |-> c.masked, error |-> "" ]

ConfigAnts(in) == ConfigFixed(in, ConfigMoving(in, NewRegistration(in)))

\* ------------------------------------------------------------ the validator
Vox == 1..NVox

\* float(overlap_voxel_count.sum())/float(input_mask_data.sum())*100, line 212,
\* kept as the exact fraction num/den (the counts are far below 2^52, where
\* the double quotient orders against 50 as the exact one does)
OverlapPerc(resampled, target) ==
    [ num |-> Cardinality(resampled \cap target) * 100, den |-> Cardinality(resampled) ]

\* overlap_perc > 50, line 214
AcceptsAtLeast(perc) == perc.num >= 50 * perc.den

Accepts(perc) == perc.num > 50 * perc.den

\* "%d" % overlap_perc
PercInt(perc) == perc.num \div perc.den

\* ---------------------------------------------------------------- the engine
OutputNames == { "composite_transform", "warped_image" }

\* interface_result.outputs.get() of the invocation made in run r
Outputs(r) == [ k \in OutputNames |-> <<k, r>> ]

\* dict.setdefault for each key in place of dict.update
UpdateKeepsOld(d, e) == [ k \in (DOMAIN d) \cup (DOMAIN e) |-> IF k \in DOMAIN d THEN d[k] ELSE e[k] ]

\* dict.update
Update(d, e) == [ k \in (DOMAIN d) \cup (DOMAIN e) |-> IF k \in DOMAIN e THEN e[k] ELSE d[k] ]

None == {}

\* the files Registration.run() leaves in the working directory with
\* terminal_output='file', and their archives
LogFile(base, suffix) == <<base, suffix>>

StdLogs == { LogFile("stderr.nipype", <<>>), LogFile("stdout.nipype", <<>>) }

\* shutil.move(src, dst)
Move(dir, src, dst) == (dir \ {src}) \cup {dst}

\* ------------------------------------------------------------------ state
VARIABLES
    pc,               \* where the run is
    runNo,            \* runs started on this instance
    inputs,           \* self.inputs
    retry,            \* self.retry
    results,          \* self._results
    norm,             \* self.norm
    settings_files,   \* local of _run_interface
    idx,              \* position of the for loop in settings_files (1-based)
    interface_result, \* local of _run_interface
    returncode,       \* runtime.returncode
    cwd,              \* log files in runtime.cwd
    masked,           \* files written by mask()
    error,            \* the exception that ended the run, "" when none
    message,          \* the number its message reports
    overlap,          \* overlap_perc as measured by the validator
    invoked,          \* settings files the engine ran with in this run, in order
    outcomes,         \* and whether each invocation succeeded
    archived,         \* archives written by this run, in order
    affineCalls,      \* AffineInitializer runs in this run
    validatorCalls,   \* _validate_results calls in this run
    listings,         \* resource_listdir calls in this run
    retryAtStart,     \* self.retry as the run found it (between runs: as the next will)
    in_nii,           \* mask(): the volume loaded from in_file
    mask_nii,         \* mask(): the volume loaded from mask_file
    new_nii           \* mask(): the volume written to new_name

ctlVars == << pc, runNo, inputs, retry, results, norm, settings_files, idx, interface_result,
           returncode, cwd, masked, error, message, overlap, invoked, outcomes, archived,
           affineCalls, validatorCalls, listings, retryAtStart >>

maskVars == << in_nii, mask_nii, new_nii >>

vars == << ctlVars, maskVars >>

DefaultInputs ==
    DefaultTraits @@ [ settings |-> Undefined, moving |-> MovingT1, flavor |-> FlavorPrecise,
                       testing |-> Undefined ]

\* __init__, lines 69-73
Init ==
    /\ pc = "idle"
    /\ runNo = 0
    /\ inputs = DefaultInputs
    /\ retry = 0
    /\ results = <<>>
    /\ norm = None
    /\ settings_files = <<>>
    /\ idx = 1
    /\ interface_result = None
    /\ returncode = None
    /\ cwd = {}
    /\ masked = {}
    /\ error = ""
    /\ message = None
    /\ overlap = None
    /\ invoked = <<>>
    /\ outcomes = <<>>
    /\ archived = <<>>
    /\ affineCalls = 0
    /\ validatorCalls = 0
    /\ listings = 0
    /\ retryAtStart = 0
    /\ in_nii = None
    /\ mask_nii = None
    /\ new_nii = None

Terminated == pc \in { "returned", "raised" }

Raise(kind, msg) ==
    /\ pc' = "raised"
    /\ error' = kind
    /\ message' = msg

\* the run has returned or raised: its locals are gone.  The next run assigns
\* self.inputs and self.norm (line 139) before reading them, so their stale
\* values are dropped here; self.retry and self._results stay.
Return ==
    /\ Terminated
    /\ pc' = "idle"
    /\ inputs' = DefaultInputs
    /\ norm' = None
    /\ settings_files' = <<>>
    /\ idx' = 1
    /\ interface_result' = None
    /\ returncode' = None
    /\ cwd' = {}
    /\ masked' = {}
    /\ error' = ""
    /\ message' = None
    /\ overlap' = None
    /\ invoked' = <<>>
    /\ outcomes' = <<>>
    /\ archived' = <<>>
    /\ affineCalls' = 0
    /\ validatorCalls' = 0
    /\ listings' = 0
    /\ retryAtStart' = retry
    /\ UNCHANGED << runNo, retry, results >>
    /\ UNCHANGED maskVars

\* the caller sets the inputs and calls run() on the instance
Run ==
    /\ pc = "idle"
    /\ runNo < MaxRuns
    /\ runNo' = runNo + 1
    /\ inputs' \in RunInputs
    /\ pc' = "get_settings"
    /\ UNCHANGED << retryAtStart, retry, results, norm, settings_files, idx, interface_result, returncode, cwd,
                    masked, error, message, overlap, invoked, outcomes, archived, affineCalls,
                    validatorCalls, listings >>
    /\ UNCHANGED maskVars

\* line 93
ResolveSettings ==
    /\ pc = "get_settings"
    /\ \E listing \in (IF isdefined(inputs.settings) THEN { <<>> } ELSE Listings) :
          LET r == GetSettings(inputs, listing)
          IN  /\ settings_files' = r.files
              /\ listings' = IF r.listed THEN listings + 1 ELSE listings
    /\ pc' = "config"
    /\ UNCHANGED << retryAtStart, runNo, inputs, retry, results, norm, idx, interface_result, returncode, cwd,
                    masked, error, message, overlap, invoked, outcomes, archived, affineCalls,
                    validatorCalls >>
    /\ UNCHANGED maskVars

\* line 95
Configure ==
    /\ pc = "config"
    /\ LET c == ConfigAnts(inputs)
       IN  /\ norm' = {c.norm}
           /\ masked' = c.masked
           /\ IF c.error = ""
              THEN pc' = "affine" /\ UNCHANGED << error, message >>
              ELSE Raise(c.error, None)
    /\ UNCHANGED << retryAtStart, runNo, inputs, retry, results, settings_files, idx, interface_result, returncode,
                    cwd, overlap, invoked, outcomes, archived, affineCalls, validatorCalls, listings >>
    /\ UNCHANGED maskVars

\* line 97
NeedsAffineAlways(reg) == TRUE

NeedsAffine(reg) == ~isdefined(reg.initial_moving_transform)

\* lines 97-101: AffineInitializer(...).run() succeeds or raises
AffineInitialize ==
    /\ pc = "affine"
    /\ IF ~NeedsAffine(Val(norm))
       THEN /\ pc' = "loop"
            /\ UNCHANGED << norm, affineCalls, error, message >>
       ELSE /\ affineCalls' = affineCalls + 1
            /\ \/ /\ norm' = { [Val(norm) EXCEPT !.initial_moving_transform = { <<"affine_xfm">> }] }
                  /\ pc' = "loop"
                  /\ UNCHANGED << error, message >>
               \/ /\ Raise("AffineInitializerError", None)
                  /\ UNCHANGED norm
    /\ UNCHANGED << retryAtStart, runNo, inputs, retry, results, settings_files, idx, interface_result, returncode,
                    cwd, masked, overlap, invoked, outcomes, archived, validatorCalls, listings >>
    /\ UNCHANGED maskVars

\* line 136: the count in 'failed after %d retries'
RetriesReportedAsCounted(r) == r

RetriesReported(r) == r - 1

\* the loop with a plain return in place of the raise of lines 135-136
NextPresetNoRaise ==
    /\ pc = "loop"
    /\ IF idx <= Len(settings_files)
       THEN /\ interface_result' = None
            /\ norm' = { [Val(norm) EXCEPT !.from_file = { settings_files[idx] }] }
            /\ pc' = "engine"
       ELSE /\ pc' = "returned"
            /\ UNCHANGED << interface_result, norm >>
    /\ UNCHANGED << error, message >>
    /\ UNCHANGED << retryAtStart, runNo, inputs, retry, results, settings_files, idx, returncode, cwd, masked,
                    overlap, invoked, outcomes, archived, affineCalls, validatorCalls, listings >>
    /\ UNCHANGED maskVars

\* the loop with _config_ants called again at the head of each iteration
NextPresetReconfigured ==
    /\ pc = "loop"
    /\ IF idx <= Len(settings_files)
       THEN /\ interface_result' = None
            /\ norm' = { [ConfigAnts(inputs).norm EXCEPT !.from_file = { settings_files[idx] }] }
            /\ pc' = "engine"
            /\ UNCHANGED << error, message >>
       ELSE /\ Raise("RuntimeError", { RetriesReported(retry) })
            /\ UNCHANGED << interface_result, norm >>
    /\ UNCHANGED << retryAtStart, runNo, inputs, retry, results, settings_files, idx, returncode, cwd, masked,
                    overlap, invoked, outcomes, archived, affineCalls, validatorCalls, listings >>
    /\ UNCHANGED maskVars

\* lines 103-108, and lines 135-136 when the list is exhausted
NextPreset ==
    /\ pc = "loop"
    /\ IF idx <= Len(settings_files)
       THEN /\ interface_result' = None
            /\ norm' = { [Val(norm) EXCEPT !.from_file = { settings_files[idx] }] }
            /\ pc' = "engine"
            /\ UNCHANGED << error, message >>
       ELSE /\ Raise("RuntimeError", { RetriesReported(retry) })
            /\ UNCHANGED << interface_result, norm >>
    /\ UNCHANGED << retryAtStart, runNo, inputs, retry, results, settings_files, idx, returncode, cwd, masked,
                    overlap, invoked, outcomes, archived, affineCalls, validatorCalls, listings >>
    /\ UNCHANGED maskVars

\* lines 112-116: self.norm.run() returns a result or raises; either way it
\* leaves stderr.nipype and stdout.nipype in the working directory
EngineRun ==
    /\ pc = "engine"
    /\ \E ok \in BOOLEAN :
          /\ interface_result' = IF ok THEN { Outputs(runNo) } ELSE None
          /\ outcomes' = Append(outcomes, ok)
    /\ invoked' = Append(invoked, Val(Val(norm).from_file))
    /\ cwd' = cwd \cup StdLogs
    /\ pc' = "archive"
    /\ UNCHANGED << retryAtStart, runNo, inputs, retry, results, norm, settings_files, idx, returncode, masked,
                    error, message, overlap, archived, affineCalls, validatorCalls, listings >>
    /\ UNCHANGED maskVars

\* lines 118-122 moved into the except branch
ArchiveLogsOnFailure ==
    /\ pc = "archive"
    /\ LET errfile == LogFile("stderr.nipype", <<>>)
           outfile == LogFile("stdout.nipype", <<>>)
           errdst == LogFile("stderr.nipype", Fmt03(retry))
           outdst == LogFile("stdout.nipype", Fmt03(retry))
       IN  IF interface_result = None
           THEN /\ cwd' = Move(Move(cwd, errfile, errdst), outfile, outdst)
                /\ archived' = archived \o << errdst, outdst >>
           ELSE UNCHANGED << cwd, archived >>
    /\ pc' = "check"
    /\ UNCHANGED << retryAtStart, runNo, inputs, retry, results, norm, settings_files, idx,
                    interface_result, returncode, masked, error, message, overlap, invoked, outcomes,
                    affineCalls, validatorCalls, listings >>
    /\ UNCHANGED maskVars

\* lines 118-122
ArchiveLogs ==
    /\ pc = "archive"
    /\ LET errfile == LogFile("stderr.nipype", <<>>)
           outfile == LogFile("stdout.nipype", <<>>)
           errdst == LogFile("stderr.nipype", Fmt03(retry))
           outdst == LogFile("stdout.nipype", Fmt03(retry))
       IN  /\ errfile \in cwd /\ outfile \in cwd
           /\ cwd' = Move(Move(cwd, errfile, errdst), outfile, outdst)
           /\ archived' = archived \o << errdst, outdst >>
    /\ pc' = "check"
    /\ UNCHANGED << retryAtStart, runNo, inputs, retry, results, norm, settings_files, idx, interface_result,
                    returncode, masked, error, message, overlap, invoked, outcomes, affineCalls,
                    validatorCalls, listings >>
    /\ UNCHANGED maskVars

\* lines 127-131: where a successful attempt goes
AfterSuccessUnvalidated(in) == "returned"

AfterSuccess(in) == IF isdefined(in.moving_mask) THEN "validate" ELSE "returned"

\* lines 124-133 without the return of line 131
CheckResultNoReturn ==
    /\ pc = "check"
    /\ IF interface_result # None
       THEN /\ returncode' = { 0 }
            /\ results' = Update(results, Val(interface_result))
            /\ UNCHANGED retry
       ELSE /\ retry' = retry + 1
            /\ UNCHANGED << returncode, results >>
    /\ idx' = idx + 1
    /\ pc' = "loop"
    /\ UNCHANGED << retryAtStart, runNo, inputs, norm, settings_files, interface_result, cwd, masked,
                    error, message, overlap, invoked, outcomes, archived, affineCalls, validatorCalls,
                    listings >>
    /\ UNCHANGED maskVars

\* lines 124-133
CheckResult ==
    /\ pc = "check"
    /\ IF interface_result # None
       THEN /\ returncode' = { 0 }
            /\ results' = Update(results, Val(interface_result))
            /\ pc' = AfterSuccess(inputs)
            /\ UNCHANGED << retry, idx >>
       ELSE /\ retry' = retry + 1
            /\ idx' = idx + 1
            /\ pc' = "loop"
            /\ UNCHANGED << returncode, results >>
    /\ UNCHANGED << retryAtStart, runNo, inputs, norm, settings_files, interface_result, cwd, masked, error,
                    message, overlap, invoked, outcomes, archived, affineCalls, validatorCalls,
                    listings >>
    /\ UNCHANGED maskVars

\* lines 192-216 called inside the try of line 112: a rejection is caught
\* like an engine failure and the next settings file is tried
ValidateResultsRetried ==
    /\ pc = "validate"
    /\ validatorCalls' = validatorCalls + 1
    /\ \E input_mask_data \in SUBSET Vox, target_mask_data \in SUBSET Vox :
          LET overlap_perc == OverlapPerc(input_mask_data, target_mask_data)
          IN  /\ overlap_perc.den # 0
              /\ overlap' = { overlap_perc }
              /\ IF Accepts(overlap_perc)
                 THEN pc' = "returned" /\ UNCHANGED << retry, idx >>
                 ELSE pc' = "loop" /\ retry' = retry + 1 /\ idx' = idx + 1
    /\ UNCHANGED << retryAtStart, runNo, inputs, results, norm, settings_files, interface_result,
                    returncode, cwd, masked, error, message, invoked, outcomes, archived, affineCalls,
                    listings >>
    /\ UNCHANGED maskVars

\* lines 192-216: ApplyTransforms(...).run() raises, or resamples the moving
\* mask to some volume on the grid of the target mask
ValidateResults ==
    /\ pc = "validate"
    /\ validatorCalls' = validatorCalls + 1
    /\ \/ /\ Raise("ApplyTransformsError", None)
          /\ UNCHANGED overlap
       \/ \E input_mask_data \in SUBSET Vox, target_mask_data \in SUBSET Vox :
             LET overlap_perc == OverlapPerc(input_mask_data, target_mask_data)
             IN  IF overlap_perc.den = 0
                 THEN /\ Raise("ZeroDivisionError", None)
                      /\ UNCHANGED overlap
                 ELSE /\ overlap' = { overlap_perc }
                      /\ IF Accepts(overlap_perc)
                         THEN pc' = "returned" /\ UNCHANGED << error, message >>
                         ELSE Raise("AssertionError", { PercInt(overlap_perc) })
    /\ UNCHANGED << retryAtStart, runNo, inputs, retry, results, norm, settings_files, idx, interface_result,
                    returncode, cwd, masked, invoked, outcomes, archived, affineCalls, listings >>
    /\ UNCHANGED maskVars

Next ==
    \/ Run
    \/ Return
    \/ ResolveSettings
    \/ Configure
    \/ AffineInitialize
    \/ NextPreset
    \/ EngineRun
    \/ ArchiveLogs
    \/ CheckResult
    \/ ValidateResults

Spec == Init /\ [][Next]_vars

\* ------------------------------------------------- the resolver on its own
\* _get_settings applied once to every combination of the traits it reads
InitSettings ==
    /\ pc = "get_settings"
    /\ runNo = 1
    /\ inputs \in { DefaultTraits @@ t : t \in SettingsTraits }
    /\ retry = 0
    /\ results = <<>>
    /\ norm = None
    /\ settings_files = <<>>
    /\ idx = 1
    /\ interface_result = None
    /\ returncode = None
    /\ cwd = {}
    /\ masked = {}
    /\ error = ""
    /\ message = None
    /\ overlap = None
    /\ invoked = <<>>
    /\ outcomes = <<>>
    /\ archived = <<>>
    /\ affineCalls = 0
    /\ validatorCalls = 0
    /\ listings = 0
    /\ retryAtStart = 0
    /\ in_nii = None
    /\ mask_nii = None
    /\ new_nii = None

NextSettings == ResolveSettings

SpecSettings == InitSettings /\ [][NextSettings]_vars

\* ------------------------------------------------------- mask() on its own
\* voxel values of an image, and of a mask (any nonzero value is inside)
Intensities == { 0, 1, 2 }

MaskValues == { 0, 1, 2 }

\* nb.Nifti1Image(data, affine, header)
Nifti1Image(data, affine, header) == [ data |-> data, affine |-> affine, header |-> header ]

\* data * mask in place of the assignment of line 226
MaskedDataScaled(data, mask_data) == [ v \in DOMAIN data |-> data[v] * mask_data[v] ]

\* lines 225-226: data[mask_nii.get_data() == 0] = 0
MaskedData(data, mask_data) == [ v \in DOMAIN data |-> IF mask_data[v] = 0 THEN 0 ELSE data[v] ]

\* nb.load of an image and of a mask on the same grid
InitMask ==
    /\ pc = "mask"
    /\ runNo = 0
    /\ inputs = DefaultInputs
    /\ retry = 0
    /\ results = <<>>
    /\ norm = None
    /\ settings_files = <<>>
    /\ idx = 1
    /\ interface_result = None
    /\ returncode = None
    /\ cwd = {}
    /\ masked = {}
    /\ error = ""
    /\ message = None
    /\ overlap = None
    /\ invoked = <<>>
    /\ outcomes = <<>>
    /\ archived = <<>>
    /\ affineCalls = 0
    /\ validatorCalls = 0
    /\ listings = 0
    /\ retryAtStart = 0
    /\ in_nii \in { {Nifti1Image(d, "in_affine", "in_header")} : d \in [Vox -> Intensities] }
    /\ mask_nii \in { {Nifti1Image(d, "mask_affine", "mask_header")} : d \in [Vox -> MaskValues] }
    /\ new_nii = None

\* lines 225-228
MaskApply ==
    /\ pc = "mask"
    /\ new_nii' = { Nifti1Image(MaskedData(Val(in_nii).data, Val(mask_nii).data),
                                Val(in_nii).affine, Val(in_nii).header) }
    /\ pc' = "masked"
    /\ UNCHANGED << runNo, inputs, retry, results, norm, settings_files, idx, interface_result,
                    returncode, cwd, masked, error, message, overlap, invoked, outcomes, archived,
                    affineCalls, validatorCalls, listings, retryAtStart, in_nii, mask_nii >>

NextMask == MaskApply

SpecMask == InitMask /\ [][NextMask]_vars

\* ------------------------------------------------------------ properties
ConfigErrors == { "NotImplementedError", "AttributeError" }

\* the run has reached the loop over the settings files
LoopEntered ==
    \/ pc \in { "loop", "engine", "archive", "check", "validate", "returned" }
    \/ pc = "raised" /\ error \notin ConfigErrors \cup { "AffineInitializerError" }

NoSuccess == \A i \in 1..Len(outcomes) : ~outcomes[i]

\* C1: the engine is invoked with the settings files in list order, one
\* invocation per file, and with none after the first invocation that
\* succeeds: when file k (0-based) is the first to succeed the run ends after
\* exactly k+1 invocations, and a run in which none succeeds goes through
\* the whole list.
C1_StopsAtFirstSuccess ==
    /\ Len(outcomes) = Len(invoked)
    /\ Len(invoked) <= Len(settings_files)
    /\ \A i \in 1..Len(invoked) : invoked[i] = settings_files[i]
    /\ \A i \in 1..Len(outcomes) : outcomes[i] => i = Len(outcomes)
    /\ (Terminated /\ LoopEntered /\ NoSuccess) => Len(invoked) = Len(settings_files)

C1_Witness ==
    /\ Terminated
    /\ Len(settings_files) = 3
    /\ settings_files[1] # settings_files[2]
    /\ outcomes = << FALSE, TRUE >>

\* C2: on a freshly constructed interface, a run over N >= 1 settings files
\* whose invocations all fail makes exactly N invocations and ends with the
\* RuntimeError 'failed after %d retries' reporting N-1.
C2_ExhaustionReportsNMinus1 ==
    (runNo = 1 /\ Terminated /\ LoopEntered /\ NoSuccess /\ Len(settings_files) >= 1) =>
        /\ pc = "raised"
        /\ error = "RuntimeError"
        /\ Len(invoked) = Len(settings_files)
        /\ message = { Len(settings_files) - 1 }

C2_Witness ==
    /\ runNo = 1
    /\ error = "RuntimeError"
    /\ outcomes = << FALSE, FALSE, FALSE >>

\* C3: a run returns normally exactly when an engine invocation succeeded
\* and either no moving mask was supplied, the validator then never being
\* called, or the validator measured an overlap above 50 percent; every
\* other run ends with an exception.
C3_ReturnsIffValidated ==
    Terminated =>
        /\ (pc = "returned") <=>
              /\ \E i \in 1..Len(outcomes) : outcomes[i]
              /\ \/ ~isdefined(inputs.moving_mask) /\ validatorCalls = 0
                 \/ isdefined(overlap) /\ Val(overlap).num > 50 * Val(overlap).den
        /\ (pc = "raised") <=> (error # "")

C3_Witness ==
    /\ pc = "returned"
    /\ isdefined(inputs.moving_mask)
    /\ validatorCalls = 1
    /\ isdefined(overlap)

\* C4: once the validator has measured an overlap of 50 percent or less, the
\* run has ended with the AssertionError that reports the percentage, the
\* last invocation being the successful one: no later settings file is tried.
C4_RejectionIsFinal ==
    (isdefined(overlap) /\ Val(overlap).num <= 50 * Val(overlap).den) =>
        /\ pc = "raised"
        /\ error = "AssertionError"
        /\ message = { Val(overlap).num \div Val(overlap).den }
        /\ Len(invoked) = Len(outcomes)
        /\ outcomes[Len(outcomes)]
        /\ idx = Len(invoked)

C4_Witness ==
    /\ error = "AssertionError"
    /\ Len(invoked) < Len(settings_files)

\* ".000", ".001", ...: the suffix of attempt i, for i below 1000
Suffix3(i) == << 46, 48 + ((i \div 100) % 10), 48 + ((i \div 10) % 10), 48 + (i % 10) >>

\* C5: within a run the attempt index grows by one with each failed settings
\* file and not otherwise, the archives of the i-th invocation of the run
\* (counted from 0) are stderr.nipype and stdout.nipype with the suffix of i
\* in three digits, and no archive name is written twice.
C5_ArchivesNumberedFromZero ==
    /\ retry = retryAtStart + (idx - 1)
    /\ \A i \in 1..(Len(archived) \div 2) :
          /\ archived[2 * i - 1] = LogFile("stderr.nipype", Suffix3(i - 1))
          /\ archived[2 * i] = LogFile("stdout.nipype", Suffix3(i - 1))
    /\ \A i, j \in 1..Len(archived) : archived[i] = archived[j] => i = j

\* C6: except between an invocation and its archiving, neither log file of
\* the engine is left in the working directory and every invocation made has
\* its pair of archives, still in place: so it is when the next invocation
\* starts, when the validator is called and when the run ends.
C6_LogsArchivedAfterEveryInvocation ==
    /\ pc # "archive" => (cwd \cap StdLogs = {} /\ Len(archived) = 2 * Len(invoked))
    /\ pc = "archive" => Len(archived) = 2 * (Len(invoked) - 1)
    /\ \A i \in 1..Len(archived) : archived[i] \in cwd /\ archived[i] \notin StdLogs
    /\ \A i \in 1..(Len(archived) \div 2) :
          /\ archived[2 * i - 1][1] = "stderr.nipype"
          /\ archived[2 * i][1] = "stdout.nipype"
          /\ archived[2 * i - 1][2] = archived[2 * i][2]

C6_Witness ==
    /\ pc = "validate"
    /\ outcomes = << FALSE, TRUE >>
    /\ Len(archived) = 4

\* C7: with B voxels set in both masks and M > 0 voxels set in the resampled
\* moving mask, the validator accepts exactly when 2*B > M; an overlap of
\* exactly 50 percent raises the AssertionError.
C7_AcceptsIffMoreThanHalf ==
    isdefined(overlap) =>
        LET B == Val(overlap).num \div 100
            M == Val(overlap).den
        IN  /\ M > 0
            /\ Val(overlap).num = 100 * B
            /\ (pc = "returned") <=> (2 * B > M)
            /\ (2 * B <= M) => (pc = "raised" /\ error = "AssertionError")

C7_Witness ==
    /\ isdefined(overlap)
    /\ Val(overlap).num = 50 * Val(overlap).den
    /\ error = "AssertionError"

\* C8: a run with orientation LAS and no reference image ends in
\* NotImplementedError out of _config_ants: it never calls the affine
\* initializer, never invokes the engine and archives no log.
C8_LASWithoutReferenceFailsFirst ==
    (inputs.orientation = "LAS" /\ ~isdefined(inputs.reference_image)) =>
        /\ pc \in { "get_settings", "config", "raised" }
        /\ pc = "raised" => error = "NotImplementedError"
        /\ affineCalls = 0
        /\ invoked = <<>>
        /\ archived = <<>>
        /\ cwd = {}

C8_Witness ==
    /\ error = "NotImplementedError"
    /\ Len(settings_files) = 3
    /\ ~isdefined(inputs.initial_moving_transform)
    /\ isdefined(inputs.moving_mask)

\* C9: the affine initializer runs at most once in a run and never when the
\* caller supplied an initial transform; it runs after _config_ants has
\* completed; a run without a supplied transform that reaches the loop has
\* run it once, before any engine invocation; and when it fails the run
\* ends there, with no engine invocation.
C9_AffineOncePerRun ==
    /\ affineCalls <= 1
    /\ isdefined(inputs.initial_moving_transform) => affineCalls = 0
    /\ affineCalls = 1 =>
          /\ pc \notin { "idle", "get_settings", "config", "affine" }
          /\ error \notin ConfigErrors
          /\ ~isdefined(inputs.initial_moving_transform)
    /\ (LoopEntered /\ ~isdefined(inputs.initial_moving_transform)) =>
          /\ affineCalls = 1
          /\ isdefined(Val(norm).initial_moving_transform)
    /\ invoked # <<>> => LoopEntered
    /\ error = "AffineInitializerError" =>
          /\ pc = "raised"
          /\ affineCalls = 1
          /\ invoked = <<>>
          /\ archived = <<>>

C9_Witness ==
    /\ error = "AffineInitializerError"
    /\ Len(settings_files) = 3

\* C10: with a non-empty explicit settings list, _get_settings returns that
\* list, element for element, and does not list the catalog, whatever the
\* moving modality, the flavor and the testing flag.
C10_ExplicitSettingsOverride ==
    (pc = "config" /\ isdefined(inputs.settings) /\ Val(inputs.settings) # <<>>) =>
        /\ settings_files = Val(inputs.settings)
        /\ listings = 0

C10_Witness ==
    /\ pc = "config"
    /\ isdefined(inputs.settings)
    /\ Val(inputs.settings) = << <<118>>, <<117>> >>
    /\ inputs.moving = MovingEPI
    /\ inputs.testing = {TRUE}
    /\ settings_files = << <<118>>, <<117>> >>

\* the catalog entries _get_settings is to select for the traits in
Selected(in) ==
    LET prefix == Lower(in.moving) \o MniRegistration
                      \o (IF in.testing = {TRUE} THEN FlavorTesting ELSE in.flavor) \o Underscore
    IN  { f \in Catalog : StartsWith(f, prefix) /\ EndsWith(f, DotJson) }

\* C11: without an explicit settings list, _get_settings lists the catalog
\* once and returns the resource file of each entry that starts with
\* "<moving, lowercased>-mni_registration_<flavor, or testing under the
\* testing flag>_" and ends with ".json", each once, in ascending order of
\* file name, in whatever order the catalog was listed.
C11_CatalogSelectionSorted ==
    (pc = "config" /\ ~isdefined(inputs.settings)) =>
        /\ listings = 1
        /\ Len(settings_files) = Cardinality(Selected(inputs))
        /\ { settings_files[i] : i \in 1..Len(settings_files) }
               = { ResourceFilename(f) : f \in Selected(inputs) }
        /\ \A i, j \in 1..Len(settings_files) :
               i < j => StrLess(SubSeq(settings_files[i], 3, Len(settings_files[i])),
                                SubSeq(settings_files[j], 3, Len(settings_files[j])))

C11_Witness ==
    /\ pc = "config"
    /\ ~isdefined(inputs.settings)
    /\ inputs.moving = MovingT1
    /\ inputs.flavor = FlavorFast
    /\ inputs.testing = {FALSE}
    /\ Len(settings_files) = 2

\* C12: the volume mask() writes is 0 at every voxel where the mask is 0 and
\* the input's value at every voxel where the mask is not 0, and carries the
\* affine and the header of the input volume.
C12_MaskZeroesOutside ==
    pc = "masked" =>
        /\ DOMAIN Val(new_nii).data = DOMAIN Val(in_nii).data
        /\ \A v \in Vox :
              /\ Val(mask_nii).data[v] = 0 => Val(new_nii).data[v] = 0
              /\ Val(mask_nii).data[v] # 0 => Val(new_nii).data[v] = Val(in_nii).data[v]
        /\ Val(new_nii).affine = Val(in_nii).affine
        /\ Val(new_nii).header = Val(in_nii).header

C12_Witness ==
    /\ pc = "masked"
    /\ \E v, w \in Vox :
          /\ Val(mask_nii).data[v] = 0 /\ Val(in_nii).data[v] = 2 /\ Val(new_nii).data[v] = 0
          /\ Val(mask_nii).data[w] = 2 /\ Val(in_nii).data[w] = 1 /\ Val(new_nii).data[w] = 1

\* C13, as claimed: after a run in which the validator accepts, the result
\* returned holds, beside the outputs of the engine, a record of the
\* validation with the overlap measured.
C13_OverlapRecorded ==
    (pc = "returned" /\ isdefined(overlap)) => \E k \in DOMAIN results : k \notin OutputNames

\* C13, as the code has it: after a run in which the validator accepts, the
\* result returned is the outputs of the successful engine invocation of
\* that run and nothing else; the overlap measured, above 50 percent, is
\* not part of it.
C13_ResultIsEngineOutputs ==
    (pc = "returned" /\ isdefined(overlap)) =>
        /\ results = Outputs(runNo)
        /\ DOMAIN results = OutputNames
        /\ Val(overlap).num > 50 * Val(overlap).den
        /\ outcomes[Len(outcomes)]

C13_Witness ==
    /\ pc = "returned"
    /\ outcomes = << FALSE, TRUE >>
    /\ Len(archived) = 4
    /\ isdefined(overlap)
    /\ results = Outputs(runNo)

\* C14: a run whose list of settings files came out empty invokes the engine
\* zero times, archives no log, never returns a result, and, once
\* configuration and the initial transform are through, ends in the
\* RuntimeError of the exhausted list.
C14_EmptyListFailsWithoutInvocation ==
    (pc \notin { "idle", "get_settings" } /\ settings_files = <<>>) =>
        /\ invoked = <<>>
        /\ archived = <<>>
        /\ cwd = {}
        /\ pc # "returned"
        /\ pc \notin { "engine", "archive", "check", "validate" }
        /\ (Terminated /\ LoopEntered) => (error = "RuntimeError" /\ isdefined(message))

C14_Witness ==
    /\ pc = "raised"
    /\ error = "RuntimeError"
    /\ settings_files = <<>>
    /\ isdefined(inputs.settings)
    /\ invoked = <<>>
    /\ archived = <<>>

\* the base configuration of the engine: everything but the settings file
BaseConfiguration(reg) == [reg EXCEPT !.from_file = Undefined]

\* the base configuration the inputs of the run determine, the initial
\* transform being the caller's or else the one AffineInitializer computed
ExpectedBase(in) ==
    [ConfigAnts(in).norm EXCEPT !.initial_moving_transform =
        IF isdefined(in.initial_moving_transform) THEN in.initial_moving_transform
        ELSE { <<"affine_xfm">> }]

\* C15: from the first pass of the loop to the end of the run the engine's
\* moving image, fixed image, masks, thread count and initial transform are
\* those set before the loop, whatever the number of invocations made: only
\* the settings file changes, and AffineInitializer is not run again.
C15_OnlyPresetChanges ==
    (pc \in { "loop", "engine", "archive", "check", "validate" } \/ (Terminated /\ LoopEntered)) =>
        /\ BaseConfiguration(Val(norm)) = ExpectedBase(inputs)
        /\ affineCalls = IF isdefined(inputs.initial_moving_transform) THEN 0 ELSE 1
        /\ (pc \in { "archive", "check", "validate" } \/ (Terminated /\ Len(invoked) >= 1)) =>
               Val(norm).from_file = { invoked[Len(invoked)] }

C15_Witness ==
    /\ pc = "archive"
    /\ Len(invoked) = 3
    /\ invoked[1] # invoked[2]
    /\ ~isdefined(inputs.initial_moving_transform)
    /\ isdefined(inputs.moving_mask)
    /\ Val(norm).initial_moving_transform = { <<"affine_xfm">> }
    /\ affineCalls = 1

\* C16: with a reference image and a reference mask supplied, configuration
\* completes; under explicit masking the fixed image of the engine is the
\* reference image masked by the reference mask, written as
\* fixed_masked.nii.gz, and no fixed mask is passed; without explicit
\* masking the fixed image is the reference image as supplied and the fixed
\* mask is the reference mask.
C16_ReferenceMaskHonoured ==
    (/\ pc \notin { "idle", "get_settings", "config" }
     /\ isdefined(inputs.reference_image)
     /\ isdefined(inputs.reference_mask)) =>
        /\ error \notin ConfigErrors
        /\ IF inputs.explicit_masking
           THEN /\ Val(norm).fixed_image = { << MaskedPath("fixed_masked.nii.gz") >> }
                /\ Val(norm).fixed_image_mask = Undefined
                /\ [ name |-> "fixed_masked.nii.gz", in_file |-> Val(inputs.reference_image)[1],
                     mask_file |-> Val(inputs.reference_mask) ] \in masked
           ELSE /\ Val(norm).fixed_image = inputs.reference_image
                /\ Val(norm).fixed_image_mask = inputs.reference_mask

\* lines 125-126 have run in this run
Collected == returncode # None

\* C17: in every state of a run the result mapping is empty until an engine
\* invocation of that run has succeeded, and from then on it is exactly the
\* outputs of that invocation; so it is empty when the run ends in the
\* RuntimeError of the exhausted list.
C17_ResultsOfThisRunOnly ==
    pc # "idle" =>
        /\ ~Collected => DOMAIN results = {}
        /\ Collected => results = Outputs(runNo)
        /\ error = "RuntimeError" => DOMAIN results = {}

\* C18: whatever the two masks, the resampled moving mask being empty
\* included, a call of the validator in which the resampling itself went
\* through ends in acceptance or in the AssertionError that reports the
\* overlap percentage.
C18_ValidatorAcceptsOrRejects ==
    (validatorCalls = 1 /\ Terminated /\ error # "ApplyTransformsError") =>
        \/ pc = "returned" /\ error = "" /\ isdefined(overlap)
        \/ pc = "raised" /\ error = "AssertionError" /\ isdefined(message) /\ isdefined(overlap)

\* C19: in every run on the instance, the first as any later one, the first
\* engine invocation is made at attempt index 0, its logs are archived under
\* .000, and a run that fails on all of its N settings files reports N-1
\* retries.
C19_EveryRunStartsAtZero ==
    /\ (pc = "engine" /\ invoked = <<>>) => retry = 0
    /\ Len(archived) >= 2 =>
          /\ archived[1] = LogFile("stderr.nipype", Suffix3(0))
          /\ archived[2] = LogFile("stdout.nipype", Suffix3(0))
    /\ (pc = "raised" /\ error = "RuntimeError") => message = { Len(settings_files) - 1 }

\* C20: the engine is invoked with as many moving images as the inputs hold,
\* in their order: each of them masked by the moving mask when there is one
\* and explicit masking is on, the list as supplied otherwise.
C20_AllMovingImagesPassed ==
    pc = "engine" =>
        LET reg == Val(norm)
        IN  /\ Len(reg.moving_image) = Len(inputs.moving_image)
            /\ IF isdefined(inputs.moving_mask) /\ inputs.explicit_masking
               THEN \A i \in 1..Len(inputs.moving_image) :
                       /\ i <= Len(reg.moving_image)
                       /\ \E m \in masked :
                             /\ m.in_file = inputs.moving_image[i]
                             /\ m.mask_file = Val(inputs.moving_mask)
                             /\ reg.moving_image[i] = MaskedPath(m.name)
               ELSE reg.moving_image = inputs.moving_image

====
